---- MODULE Spec2Model ----
(***************************************************************************)
(* BeatGuessr buzzer mode (src/backend/buzzer.py): the room registry, the  *)
(* connection directory, the socket.io channels and the event handlers.    *)
(* Every handler is one atomic action: the server processes one event at a *)
(* time.  `sent` holds the events most recently emitted: a handler that     *)
(* returns without emitting anything leaves it as it is.                    *)
(***************************************************************************)
EXTENDS Integers, Sequences, FiniteSets, TLC

\* ---------------------------------------------------------------- bounds
NumConns == 3          \* transport connections
NumSongs == 1          \* size of the song catalog
MaxScoreInput == 2     \* the maxScore a host asks for
MaxEvents == 6         \* client events the server handles in one run
RoundEvents == 4       \* client events handled in a run that begins in a round
FullEvents == 3        \* client events handled in a run that begins in a nearly full room
QueueEvents == 3       \* client events handled in a run that begins with two buzzers queued
LeadEvents == 3        \* client events handled in a run that begins one point short of the end
ManySongs == 2         \* size of the song catalog in a run with several rooms
ManyEvents == 3        \* client events handled in a run with several rooms

\* ------------------------------------------------------ program constants
MaxPlayers == 8        \* room capacity

\* ------------------------------------------------------------ input sets
Conns == 1..NumConns
Creators == {1}        \* connection ids are interchangeable: the first one creates
FirstCode == "AB12CD"
SecondCode == "EF34GH"
RoomCodes == {FirstCode, SecondCode}
RoomCodeInputs == {"ab12cd", "ef34gh"}
NameInputs == {"Alice", " alice ", "Bob", ""}
MaxScoreInputs == {MaxScoreInput}

NoSid == 0             \* Python None where a connection id is expected
None == "None"         \* Python None where a string is expected

\* ------------------------------------------------------ string functions
\* str.upper(), str.strip() and str.lower() on the strings of the model
upper(s) == CASE s = "ab12cd" -> "AB12CD"
              [] s = "ef34gh" -> "EF34GH"
              [] OTHER -> s

strip(s) == IF s = " alice " THEN "alice" ELSE s

lower(s) == CASE s = "Alice" -> "alice"
              [] s = "Bob" -> "bob"
              [] OTHER -> s

\* --------------------------------------------------------------- songs
Song(i) == [id |-> i, title |-> i, artist |-> i, year |-> i, preview_url |-> i]

NoSong == [id |-> 0, title |-> 0, artist |-> 0, year |-> 0, preview_url |-> 0]

Catalog == {Song(i) : i \in 1..NumSongs}

\* the catalogs of a run with several rooms: no song at all, or ManySongs songs
Catalogs == {{}, {Song(i) : i \in 1..ManySongs}}

VARIABLES
    rooms,            \* room code -> room (the dict `rooms`)
    player_sessions,  \* connection id -> room code (the dict `player_sessions`)
    songs_data,       \* the song catalog handed to register_buzzer_events
    code_pool,        \* the codes random.choices produces in this run
    channels,         \* socket.io room membership: {[sid, kind, code]}
    open,             \* connections whose transport is up
    nextSid,          \* the id the next connection gets
    nevents,          \* client events handled so far
    sent              \* the events most recently emitted by a handler

vars == <<rooms, player_sessions, songs_data, code_pool, channels, open, nextSid, nevents, sent>>

\* ------------------------------------------------- the players dict
\* An insertion-ordered dict sid -> player, as a sequence of entries.
Sids(ps) == {ps[i].sid : i \in DOMAIN ps}

DictGet(ps, sid) == ps[CHOOSE i \in DOMAIN ps : ps[i].sid = sid]

DictDel(ps, sid) == SelectSeq(ps, LAMBDA p : p.sid # sid)

DictSet(ps, sid, e) ==
    IF sid \in Sids(ps)
    THEN [i \in DOMAIN ps |-> IF ps[i].sid = sid THEN e ELSE ps[i]]
    ELSE Append(ps, e)

Entry(sid, name, score, connected) ==
    [sid |-> sid, name |-> name, score |-> score, connected |-> connected]

InSeq(x, q) == \E i \in DOMAIN q : q[i] = x

\* list.remove(x): drops the first occurrence
ListRemove(q, x) ==
    LET i == CHOOSE k \in DOMAIN q : q[k] = x /\ \A j \in 1..(k - 1) : q[j] # x
    IN  [j \in 1..(Len(q) - 1) |-> IF j < i THEN q[j] ELSE q[j + 1]]

\* ------------------------------------------------------- events
ToSid(s) == [kind |-> "sid", sid |-> s, code |-> ""]

ToRoom(c) == [kind |-> "room", sid |-> NoSid, code |-> c]

ToHost(c) == [kind |-> "host", sid |-> NoSid, code |-> c]

Emit(ev, data, to) == [ev |-> ev, data |-> data, to |-> to]

Membership(s, kind, c) == [sid |-> s, kind |-> kind, code |-> c]

Error(sid, msg) == <<Emit("error", [message |-> msg], ToSid(sid))>>

\* ------------------------------------------------------- get_room_state
\* list.sort(key=score, reverse=True): stable, descending
RECURSIVE SortByScore(_)
SortByScore(l) ==
    IF l = <<>> THEN <<>>
    ELSE LET x == l[Len(l)]
             s == SortByScore(SubSeq(l, 1, Len(l) - 1))
         IN  SelectSeq(s, LAMBDA p : p.score >= x.score) \o <<x>>
                 \o SelectSeq(s, LAMBDA p : p.score < x.score)

PlayersList(room) ==
    [i \in DOMAIN room.players |->
        [id |-> room.players[i].sid,
         name |-> room.players[i].name,
         score |-> room.players[i].score,
         isLockedOut |-> room.players[i].sid \in room.locked_out,
         isConnected |-> room.players[i].connected]]

NoBuzzer == [id |-> NoSid, name |-> None]

BuzzerView(room) ==
    IF room.current_buzzer # NoSid /\ room.current_buzzer \in Sids(room.players)
    THEN [id |-> room.current_buzzer,
          name |-> DictGet(room.players, room.current_buzzer).name]
    ELSE NoBuzzer

QueueView(room) ==
    LET q == SelectSeq(room.buzz_queue, LAMBDA s : s \in Sids(room.players))
    IN  [i \in DOMAIN q |-> [id |-> q[i], name |-> DictGet(room.players, q[i]).name]]

\* mutant: the song is put into every view
RoomView_SongForAll(room_code, room, for_host) ==
    [roomCode |-> room_code,
     maxScore |-> room.max_score,
     players |-> SortByScore(PlayersList(room)),
     roundActive |-> room.round_active,
     currentBuzzer |-> BuzzerView(room),
     buzzQueue |-> QueueView(room),
     gameStarted |-> room.game_started,
     gameEnded |-> room.game_ended,
     winner |-> room.winner]
        @@ (IF room.current_song # NoSong THEN [currentSong |-> room.current_song]
            ELSE << >>)

RoomView(room_code, room, for_host) ==
    LET state == [roomCode |-> room_code,
                  maxScore |-> room.max_score,
                  players |-> SortByScore(PlayersList(room)),
                  roundActive |-> room.round_active,
                  currentBuzzer |-> BuzzerView(room),
                  buzzQueue |-> QueueView(room),
                  gameStarted |-> room.game_started,
                  gameEnded |-> room.game_ended,
                  winner |-> room.winner]
    IN  IF for_host /\ room.current_song # NoSong
        THEN state @@ [currentSong |-> room.current_song]
        ELSE state

get_room_state(rms, room_code, for_host) ==
    IF room_code \notin DOMAIN rms THEN None
    ELSE RoomView(room_code, rms[room_code], for_host)

\* mutant: the host channel is not refreshed
RoomStates_RoomOnly(rms, room_code) ==
    <<Emit("room_state", get_room_state(rms, room_code, FALSE), ToRoom(room_code))>>

\* the two room_state events that follow a change of the room
RoomStates(rms, room_code) ==
    <<Emit("room_state", get_room_state(rms, room_code, FALSE), ToRoom(room_code)),
      Emit("room_state", get_room_state(rms, room_code, TRUE), ToHost(room_code))>>

\* mutant: all codes alias one record, so an update of one room shows in all
Put_Aliased(rms, room_code, room) ==
    [c \in DOMAIN rms \cup {room_code} |-> room]

Put(rms, room_code, room) ==
    [c \in DOMAIN rms \cup {room_code} |-> IF c = room_code THEN room ELSE rms[c]]

Attach(ss, sid, room_code) ==
    [s \in DOMAIN ss \cup {sid} |-> IF s = sid THEN room_code ELSE ss[s]]

Detach(ss, sid) == [s \in DOMAIN ss \ {sid} |-> ss[s]]

\* ------------------------------------------------- the event budget
\* one more client event has been handled
Handled == nevents < MaxEvents /\ nevents' = nevents + 1

\* ... and answered to the sender alone (an error, a state echo)
Replied == Handled

\* ... by a handler that returned without emitting or changing anything
Returned == Handled

\* ------------------------------------------------------------ connect
\* a new transport connection: the handler only logs it
handle_connect(sid) ==
    /\ sid = nextSid
    /\ nextSid' = nextSid + 1
    /\ open' = open \cup {sid}
    /\ UNCHANGED <<rooms, player_sessions, songs_data, code_pool, channels, nevents, sent>>

\* ------------------------------------------------------------ disconnect
\* mutant: a player that disconnects gives up its place in the round
PlayerDisconnected_LosesPlace(room, sid) ==
    [room EXCEPT !.players = DictSet(room.players, sid,
                                     [DictGet(room.players, sid) EXCEPT !.connected = FALSE]),
                 !.buzz_queue = SelectSeq(room.buzz_queue, LAMBDA x : x # sid),
                 !.current_buzzer = IF room.current_buzzer = sid THEN NoSid
                                    ELSE room.current_buzzer]

\* the player branch: the entry stays, marked as disconnected
PlayerDisconnected(room, sid) ==
    [room EXCEPT !.players = DictSet(room.players, sid,
                                     [DictGet(room.players, sid) EXCEPT !.connected = FALSE])]

handle_disconnect(sid) ==
    /\ sid \in open
    /\ open' = open \ {sid}
    /\ channels' = {m \in channels : m.sid # sid}
    /\ player_sessions' = Detach(player_sessions, sid)
    /\ UNCHANGED <<songs_data, code_pool, nextSid>>
    /\ IF sid \in DOMAIN player_sessions /\ player_sessions[sid] \in DOMAIN rooms
       THEN LET room_code == player_sessions[sid]
                room == rooms[room_code]
            IN  IF room.host_sid = sid
                THEN /\ Handled
                     /\ rooms' = Put(rooms, room_code,
                                     [room EXCEPT !.host_connected = FALSE])
                     /\ sent' = <<Emit("host_disconnected", << >>, ToRoom(room_code))>>
                ELSE IF sid \in Sids(room.players)
                THEN LET rms == Put(rooms, room_code, PlayerDisconnected(room, sid))
                     IN  /\ Handled
                         /\ rooms' = rms
                         /\ sent' = RoomStates(rms, room_code)
                ELSE Handled /\ UNCHANGED <<rooms, sent>>
       ELSE Handled /\ UNCHANGED <<rooms, sent>>

\* ------------------------------------------------------------ create_room
NewRoom(sid, max_score) ==
    [host_sid |-> sid,
     host_connected |-> TRUE,
     max_score |-> max_score,
     players |-> <<>>,
     current_song |-> NoSong,
     round_active |-> FALSE,
     buzz_queue |-> <<>>,
     current_buzzer |-> NoSid,
     locked_out |-> {},
     used_song_ids |-> {},
     game_started |-> FALSE,
     game_ended |-> FALSE,
     winner |-> None]

\* mutant: any code, taken or not
generate_room_code_AnyCode(rms) == code_pool

\* generate_room_code: any code that no room has
generate_room_code(rms) == code_pool \ DOMAIN rms

handle_create_room(sid, max_score, room_code) ==
    /\ sid \in open
    /\ room_code \in generate_room_code(rooms)
    /\ Handled
    /\ rooms' = Put(rooms, room_code, NewRoom(sid, max_score))
    /\ player_sessions' = Attach(player_sessions, sid, room_code)
    /\ channels' = channels \cup {Membership(sid, "room", room_code),
                                  Membership(sid, "host", room_code)}
    /\ sent' = <<Emit("room_created",
                      [roomCode |-> room_code, maxScore |-> max_score], ToSid(sid))>>
    /\ UNCHANGED <<songs_data, code_pool, open, nextSid>>

\* ------------------------------------------------------------ join_room
\* the first disconnected player whose name matches, ignoring case
ExistingSid(room, player_name) ==
    LET m == {i \in DOMAIN room.players :
                 /\ lower(room.players[i].name) = lower(player_name)
                 /\ ~room.players[i].connected}
    IN  IF m = {} THEN NoSid
        ELSE room.players[CHOOSE i \in m : \A j \in m : i <= j].sid

\* the rejoin branch: the session of existing_sid is transferred to sid
Rejoin(room, existing_sid, sid) ==
    LET player_data == [DictGet(room.players, existing_sid)
                           EXCEPT !.connected = TRUE, !.sid = sid]
    IN  [room EXCEPT
            !.players = DictSet(DictDel(room.players, existing_sid), sid, player_data),
            !.buzz_queue = [i \in DOMAIN room.buzz_queue |->
                               IF room.buzz_queue[i] = existing_sid THEN sid
                               ELSE room.buzz_queue[i]],
            !.current_buzzer = IF room.current_buzzer = existing_sid THEN sid
                               ELSE room.current_buzzer,
            !.locked_out = IF existing_sid \in room.locked_out
                           THEN (room.locked_out \ {existing_sid}) \cup {sid}
                           ELSE room.locked_out]

\* mutant: the capacity test is off by one
RoomFull_OffByOne(room) == Len(room.players) > MaxPlayers

\* the capacity test of the new-player branch
RoomFull(room) == Len(room.players) >= MaxPlayers

\* the new-player branch
NewPlayer(room, sid, player_name) ==
    [room EXCEPT !.players = DictSet(room.players, sid,
                                     Entry(sid, player_name, 0, TRUE))]

\* mutant: a Join is not refused when the game is over
GameEnded_NotTested(room) == FALSE

\* `if room["game_ended"]` of handle_join_room
GameEnded(room) == room.game_ended

JoinRejected(sid, msg) ==
    /\ Replied
    /\ sent' = Error(sid, msg)
    /\ UNCHANGED <<rooms, player_sessions, channels>>

handle_join_room(sid, roomCode, playerName) ==
    /\ sid \in open
    /\ UNCHANGED <<songs_data, code_pool, open, nextSid>>
    /\ LET room_code == upper(roomCode)
           player_name == strip(playerName)
       IN  IF room_code = "" \/ player_name = ""
           THEN JoinRejected(sid, "Raumcode und Name erforderlich")
           ELSE IF room_code \notin DOMAIN rooms
           THEN JoinRejected(sid, "Raum nicht gefunden")
           ELSE IF GameEnded(rooms[room_code])
           THEN JoinRejected(sid, "Spiel ist bereits beendet")
           ELSE LET room == rooms[room_code]
                    existing_sid == ExistingSid(room, player_name)
                IN  IF existing_sid = NoSid /\ RoomFull(room)
                    THEN JoinRejected(sid, "Raum ist voll (max. 8 Spieler)")
                    ELSE LET rms == Put(rooms, room_code,
                                        IF existing_sid # NoSid
                                        THEN Rejoin(room, existing_sid, sid)
                                        ELSE NewPlayer(room, sid, player_name))
                         IN  /\ Handled
                             /\ rooms' = rms
                             /\ player_sessions' = Attach(player_sessions, sid, room_code)
                             /\ channels' = channels \cup
                                                {Membership(sid, "room", room_code)}
                             /\ sent' = <<Emit("joined_room",
                                               [roomCode |-> room_code,
                                                playerName |-> player_name,
                                                gameStarted |-> room.game_started],
                                               ToSid(sid)),
                                          Emit("player_joined", [name |-> player_name],
                                               ToRoom(room_code))>>
                                        \o RoomStates(rms, room_code)

\* ------------------------------------------------------------ leave_room
handle_leave_room(sid) ==
    /\ sid \in open
    /\ UNCHANGED <<songs_data, code_pool, open, nextSid>>
    /\ IF /\ sid \in DOMAIN player_sessions
          /\ player_sessions[sid] \in DOMAIN rooms
          /\ sid \in Sids(rooms[player_sessions[sid]].players)
       THEN LET room_code == player_sessions[sid]
                room == rooms[room_code]
                player_name == DictGet(room.players, sid).name
                rms == Put(rooms, room_code,
                           [room EXCEPT !.players = DictDel(room.players, sid)])
            IN  /\ Handled
                /\ rooms' = rms
                /\ channels' = channels \ {Membership(sid, "room", room_code)}
                /\ player_sessions' = Detach(player_sessions, sid)
                /\ sent' = <<Emit("player_left", [name |-> player_name],
                                  ToRoom(room_code))>>
                               \o RoomStates(rms, room_code)
       ELSE Returned /\ UNCHANGED <<rooms, player_sessions, channels, sent>>

\* -------------------------------------------- the guards of the handlers
\* `sid not in player_sessions` / `not room`: the handler returns silently
Resolved(sid) == sid \in DOMAIN player_sessions /\ player_sessions[sid] \in DOMAIN rooms

\* mutant: every connection attached to the room passes for its host
IsHost_AnyMember(sid) == Resolved(sid)

IsHost(sid) == Resolved(sid) /\ rooms[player_sessions[sid]].host_sid = sid

\* ------------------------------------------------------------ start_game
\* mutant: starting the game reopens a game that has ended
GameStarted_Reopens(room) == [room EXCEPT !.game_started = TRUE, !.game_ended = FALSE]

GameStarted(room) == [room EXCEPT !.game_started = TRUE]

handle_start_game(sid) ==
    /\ sid \in open
    /\ UNCHANGED <<songs_data, code_pool, open, nextSid, player_sessions, channels>>
    /\ IF sid \notin DOMAIN player_sessions
       THEN Returned /\ UNCHANGED <<rooms, sent>>
       ELSE IF ~IsHost(sid)
       THEN /\ Replied
            /\ sent' = Error(sid, "Nur der Host kann das Spiel starten")
            /\ UNCHANGED rooms
       ELSE IF Len(rooms[player_sessions[sid]].players) < 1
       THEN /\ Replied
            /\ sent' = Error(sid, "Mindestens 1 Spieler erforderlich")
            /\ UNCHANGED rooms
       ELSE LET room_code == player_sessions[sid]
                rms == Put(rooms, room_code, GameStarted(rooms[room_code]))
            IN  /\ Handled
                /\ rooms' = rms
                /\ sent' = <<Emit("game_started", << >>, ToRoom(room_code))>>
                               \o RoomStates(rms, room_code)

\* ------------------------------------------------------------ start_round
\* mutant: the draw is from the whole catalog, used or not
Available_WholeCatalog(room) == songs_data

\* the songs random.choice may return, and the used set it is drawn against
Available(room) ==
    LET unused == {s \in songs_data : s.id \notin room.used_song_ids}
    IN  IF unused = {} THEN songs_data ELSE unused

UsedBeforeDraw(room) ==
    IF {s \in songs_data : s.id \notin room.used_song_ids} = {} THEN {}
    ELSE room.used_song_ids

\* mutant: the lockouts of the round before survive the new round
RoundStarted_KeepsLockouts(room, song) ==
    [room EXCEPT !.used_song_ids = UsedBeforeDraw(room) \cup {song.id},
                 !.current_song = song,
                 !.round_active = TRUE,
                 !.buzz_queue = <<>>,
                 !.current_buzzer = NoSid]

RoundStarted(room, song) ==
    [room EXCEPT !.used_song_ids = UsedBeforeDraw(room) \cup {song.id},
                 !.current_song = song,
                 !.round_active = TRUE,
                 !.buzz_queue = <<>>,
                 !.current_buzzer = NoSid,
                 !.locked_out = {}]

\* mutant: the full song goes to the whole room
RoundStartedEvents_SongToRoom(rms, room_code, song) ==
    <<Emit("round_started", [song |-> song], ToRoom(room_code))>>
        \o RoomStates(rms, room_code)

\* the full song to the host channel, the preview alone to the room
RoundStartedEvents(rms, room_code, song) ==
    <<Emit("round_started", [song |-> song], ToHost(room_code)),
      Emit("round_started", [song |-> [preview_url |-> song.preview_url]],
           ToRoom(room_code))>>
        \o RoomStates(rms, room_code)

handle_start_round(sid, song) ==
    /\ sid \in open
    /\ UNCHANGED <<songs_data, code_pool, open, nextSid, player_sessions, channels>>
    /\ IF ~IsHost(sid) \/ rooms[player_sessions[sid]].game_ended
       THEN Returned /\ UNCHANGED <<rooms, sent>> /\ song = NoSong
       ELSE LET room_code == player_sessions[sid]
                room == rooms[room_code]
            IN  IF Available(room) = {}
                THEN /\ Handled
                     /\ rooms' = Put(rooms, room_code,
                                     [room EXCEPT !.used_song_ids = {}])
                     /\ sent' = Error(sid, "Keine Songs verfuegbar")
                     /\ song = NoSong
                ELSE LET rms == Put(rooms, room_code, RoundStarted(room, song))
                     IN  /\ song \in Available(room)
                         /\ Handled
                         /\ rooms' = rms
                         /\ sent' = RoundStartedEvents(rms, room_code, song)

\* ------------------------------------------------------------ buzz
\* mutant: a queued connection may buzz again
BuzzIgnored_NoQueueCheck(sid) ==
    \/ ~Resolved(sid)
    \/ ~rooms[player_sessions[sid]].round_active
    \/ sid \notin Sids(rooms[player_sessions[sid]].players)
    \/ sid \in rooms[player_sessions[sid]].locked_out

\* the conditions under which handle_buzz returns without doing anything
BuzzIgnored(sid) ==
    \/ ~Resolved(sid)
    \/ ~rooms[player_sessions[sid]].round_active
    \/ sid \notin Sids(rooms[player_sessions[sid]].players)
    \/ InSeq(sid, rooms[player_sessions[sid]].buzz_queue)
    \/ sid \in rooms[player_sessions[sid]].locked_out

\* mutant: the buzzer jumps the queue
Buzzed_Prepend(room, sid) ==
    [room EXCEPT !.buzz_queue = <<sid>> \o room.buzz_queue,
                 !.current_buzzer = IF room.current_buzzer = NoSid THEN sid
                                    ELSE room.current_buzzer]

Buzzed(room, sid) ==
    [room EXCEPT !.buzz_queue = Append(room.buzz_queue, sid),
                 !.current_buzzer = IF room.current_buzzer = NoSid THEN sid
                                    ELSE room.current_buzzer]

handle_buzz(sid) ==
    /\ sid \in open
    /\ UNCHANGED <<songs_data, code_pool, open, nextSid, player_sessions, channels>>
    /\ IF BuzzIgnored(sid)
       THEN Returned /\ UNCHANGED <<rooms, sent>>
       ELSE LET room_code == player_sessions[sid]
                room == Buzzed(rooms[room_code], sid)
                rms == Put(rooms, room_code, room)
            IN  /\ Handled
                /\ rooms' = rms
                /\ sent' = <<Emit("player_buzzed",
                                  [playerId |-> sid,
                                   playerName |-> DictGet(room.players, sid).name,
                                   position |-> Len(room.buzz_queue)],
                                  ToRoom(room_code))>>
                               \o RoomStates(rms, room_code)

\* ------------------------------------------------------------ Init
\* The server has started: the catalog is loaded, no room, no connection.
Started ==
    /\ rooms = << >>
    /\ player_sessions = << >>
    /\ channels = {}
    /\ open = {}
    /\ nextSid = 1
    /\ nevents = 0
    /\ sent = <<>>

\* A later state of the same server, reached from Started by create_room
\* (connection 1), join_room "Alice" (2), join_room "Bob" (3), start_round:
\* the runs that begin here go further into a round than MaxEvents allows
\* from Started.
InRound ==
    \E max_score \in MaxScoreInputs, song \in Catalog :
        LET room_code == FirstCode
            lobby == NewPlayer(NewPlayer(NewRoom(1, max_score), 2, "Alice"), 3, "Bob")
            rms == Put(<< >>, room_code, RoundStarted(lobby, song))
        IN  /\ rooms = rms
            /\ player_sessions = [sid \in 1..3 |-> room_code]
            /\ channels = {Membership(sid, "room", room_code) : sid \in 1..3}
                              \cup {Membership(1, "host", room_code)}
            /\ open = 1..3
            /\ nextSid = 4
            /\ nevents = MaxEvents - RoundEvents
            /\ sent = RoundStartedEvents(rms, room_code, song)

\* The round of InRound after a Buzz of Alice and a Buzz of Bob.
Contested ==
    \E max_score \in MaxScoreInputs, song \in Catalog :
        LET room_code == FirstCode
            lobby == NewPlayer(NewPlayer(NewRoom(1, max_score), 2, "Alice"), 3, "Bob")
            room == Buzzed(Buzzed(RoundStarted(lobby, song), 2), 3)
            rms == Put(<< >>, room_code, room)
        IN  /\ rooms = rms
            /\ player_sessions = [sid \in 1..3 |-> room_code]
            /\ channels = {Membership(sid, "room", room_code) : sid \in 1..3}
                              \cup {Membership(1, "host", room_code)}
            /\ open = 1..3
            /\ nextSid = 4
            /\ nevents = MaxEvents - QueueEvents
            /\ sent = <<Emit("player_buzzed",
                             [playerId |-> 3, playerName |-> "Bob", position |-> 2],
                             ToRoom(room_code))>>
                          \o RoomStates(rms, room_code)

\* Another later state of the same server: the room created by connection 1
\* is one short of its capacity, all its players have joined and lost their
\* connection, and the other connections are attached to no room yet.
GhostNames == <<"Bob", "p2", "p3", "p4", "p5", "p6", "p7">>

NearlyFull ==
    \E max_score \in MaxScoreInputs :
        LET room_code == FirstCode
            ghosts == [i \in 1..(MaxPlayers - 1) |->
                          Entry(NumConns + i, GhostNames[i], 0, FALSE)]
            rms == Put(<< >>, room_code,
                       [NewRoom(1, max_score) EXCEPT !.players = ghosts])
        IN  /\ rooms = rms
            /\ player_sessions = [sid \in {1} |-> room_code]
            /\ channels = {Membership(1, "room", room_code),
                           Membership(1, "host", room_code)}
            /\ open = Conns
            /\ nextSid = NumConns + 1
            /\ nevents = MaxEvents - FullEvents
            /\ sent = RoomStates(rms, room_code)


\* ------------------------------------------------- several rooms
\* A server on which connection 1 is up and has sent only get_room_state
\* events, which are ignored for a connection in no room.
Idle ==
    /\ rooms = << >>
    /\ player_sessions = << >>
    /\ channels = {}
    /\ open = {1}
    /\ nextSid = 2
    /\ nevents = MaxEvents - ManyEvents
    /\ sent = <<>>

\* A server with two rooms in the lobby, after create_room (connection 1),
\* join_room "Alice" (3) into that room, and create_room (2).
TwoRooms ==
    \E max_score \in MaxScoreInputs :
        LET first == NewPlayer(NewRoom(1, max_score), 3, "Alice")
            rms == Put(Put(<< >>, FirstCode, first), SecondCode, NewRoom(2, max_score))
        IN  /\ rooms = rms
            /\ player_sessions = [sid \in 1..3 |-> IF sid = 2 THEN SecondCode ELSE FirstCode]
            /\ channels = {Membership(1, "room", FirstCode), Membership(1, "host", FirstCode),
                           Membership(3, "room", FirstCode),
                           Membership(2, "room", SecondCode), Membership(2, "host", SecondCode)}
            /\ open = 1..3
            /\ nextSid = 4
            /\ nevents = MaxEvents - ManyEvents
            /\ sent = <<Emit("room_created",
                             [roomCode |-> SecondCode, maxScore |-> max_score], ToSid(2))>>

\* The runs with several rooms: the generator has two codes to give, and the
\* catalog is empty or holds ManySongs songs.
InitMany ==
    /\ songs_data \in Catalogs
    /\ code_pool = RoomCodes
    /\ (Idle \/ TwoRooms)

\* ------------------------------------------------------------ judge
Points(correct_artist, correct_title) ==
    (IF correct_artist THEN 1 ELSE 0) + (IF correct_title THEN 1 ELSE 0)

\* the conditions under which handle_judge returns without doing anything
JudgeIgnored(sid) ==
    \/ ~IsHost(sid)
    \/ rooms[player_sessions[sid]].current_buzzer = NoSid
    \/ rooms[player_sessions[sid]].current_buzzer
           \notin Sids(rooms[player_sessions[sid]].players)

\* points > 0: award the points, end the round, maybe end the game
\* mutant: the game ends only when a score goes beyond max_score
JudgedCorrect_BeyondOnly(room, points) ==
    LET buzzer == DictGet(room.players, room.current_buzzer)
        score == buzzer.score + points
        won == score > room.max_score
    IN  [room EXCEPT !.players = DictSet(room.players, room.current_buzzer,
                                         [buzzer EXCEPT !.score = score]),
                     !.round_active = FALSE,
                     !.current_buzzer = NoSid,
                     !.game_ended = IF won THEN TRUE ELSE room.game_ended,
                     !.winner = IF won THEN buzzer.name ELSE room.winner]

\* mutant: the round goes on after a correct answer
JudgedCorrect_RoundGoesOn(room, points) ==
    LET buzzer == DictGet(room.players, room.current_buzzer)
        score == buzzer.score + points
        won == score >= room.max_score
    IN  [room EXCEPT !.players = DictSet(room.players, room.current_buzzer,
                                         [buzzer EXCEPT !.score = score]),
                     !.game_ended = IF won THEN TRUE ELSE room.game_ended,
                     !.winner = IF won THEN buzzer.name ELSE room.winner]

JudgedCorrect(room, points) ==
    LET buzzer == DictGet(room.players, room.current_buzzer)
        score == buzzer.score + points
        won == score >= room.max_score
    IN  [room EXCEPT !.players = DictSet(room.players, room.current_buzzer,
                                         [buzzer EXCEPT !.score = score]),
                     !.round_active = FALSE,
                     !.current_buzzer = NoSid,
                     !.game_ended = IF won THEN TRUE ELSE room.game_ended,
                     !.winner = IF won THEN buzzer.name ELSE room.winner]

ConnectedPlayers(room) ==
    {room.players[i].sid : i \in {j \in DOMAIN room.players : room.players[j].connected}}

\* mutant: the next buzzer is read before the judged one is removed
JudgedWrong_StaleHead(room) ==
    LET locked == room.locked_out \cup {room.current_buzzer}
        queue == ListRemove(room.buzz_queue, room.current_buzzer)
    IN  [room EXCEPT !.locked_out = locked,
                     !.buzz_queue = queue,
                     !.current_buzzer = room.buzz_queue[1],
                     !.round_active = IF ConnectedPlayers(room) \subseteq locked
                                      THEN FALSE ELSE room.round_active]

\* mutant: the round goes on when everybody is locked out
JudgedWrong_NoAllLockedOut(room) ==
    LET queue == ListRemove(room.buzz_queue, room.current_buzzer)
    IN  [room EXCEPT !.locked_out = room.locked_out \cup {room.current_buzzer},
                     !.buzz_queue = queue,
                     !.current_buzzer = IF queue # <<>> THEN queue[1] ELSE NoSid]

\* points = 0: lock the buzzer out and move to the next in the queue
JudgedWrong(room) ==
    LET locked == room.locked_out \cup {room.current_buzzer}
        queue == ListRemove(room.buzz_queue, room.current_buzzer)
    IN  [room EXCEPT !.locked_out = locked,
                     !.buzz_queue = queue,
                     !.current_buzzer = IF queue # <<>> THEN queue[1] ELSE NoSid,
                     !.round_active = IF ConnectedPlayers(room) \subseteq locked
                                      THEN FALSE ELSE room.round_active]

Result(room, correct_artist, correct_title) ==
    [playerId |-> room.current_buzzer,
     playerName |-> DictGet(room.players, room.current_buzzer).name,
     correctArtist |-> correct_artist,
     correctTitle |-> correct_title,
     points |-> Points(correct_artist, correct_title)]

CorrectResult(room, after, correct_artist, correct_title) ==
    LET result == Result(room, correct_artist, correct_title)
                      @@ [roundEnded |-> TRUE, song |-> room.current_song]
    IN  IF after.players # room.players /\ after.game_ended
           /\ DictGet(after.players, room.current_buzzer).score >= room.max_score
        THEN result @@ [gameEnded |-> TRUE,
                        winner |-> DictGet(room.players, room.current_buzzer).name]
        ELSE result

WrongResult(room, after, correct_artist, correct_title) ==
    LET result == Result(room, correct_artist, correct_title) @@ [lockedOut |-> TRUE]
    IN  IF ConnectedPlayers(after) \subseteq after.locked_out
        THEN result @@ [roundEnded |-> TRUE, allLockedOut |-> TRUE,
                        song |-> room.current_song]
        ELSE result

handle_judge(sid, correct_artist, correct_title) ==
    /\ sid \in open
    /\ UNCHANGED <<songs_data, code_pool, open, nextSid, player_sessions, channels>>
    /\ IF JudgeIgnored(sid)
       THEN Returned /\ UNCHANGED <<rooms, sent>>
       ELSE LET room_code == player_sessions[sid]
                room == rooms[room_code]
                points == Points(correct_artist, correct_title)
            IN  IF points > 0
                THEN LET after == JudgedCorrect(room, points)
                         rms == Put(rooms, room_code, after)
                     IN  /\ Handled
                         /\ rooms' = rms
                         /\ sent' = <<Emit("judge_result",
                                           CorrectResult(room, after, correct_artist,
                                                         correct_title),
                                           ToRoom(room_code))>>
                                        \o RoomStates(rms, room_code)
                ELSE IF ~InSeq(room.current_buzzer, room.buzz_queue)
                \* list.remove raises ValueError: the handler stops after
                \* locked_out.add
                THEN /\ Handled
                     /\ rooms' = Put(rooms, room_code,
                                     [room EXCEPT !.locked_out =
                                         room.locked_out \cup {room.current_buzzer}])
                     /\ UNCHANGED sent
                ELSE LET after == JudgedWrong(room)
                         rms == Put(rooms, room_code, after)
                     IN  /\ Handled
                         /\ rooms' = rms
                         /\ sent' = <<Emit("judge_result",
                                           WrongResult(room, after, correct_artist,
                                                       correct_title),
                                           ToRoom(room_code))>>
                                        \o RoomStates(rms, room_code)

\* ------------------------------------------------------------ Init
\* The room of InRound one round later: Alice has buzzed and been judged
\* correct on the artist, the host has started the next round and Alice has
\* buzzed again.  She is one point short of max_score.
Leading ==
    \E max_score \in MaxScoreInputs, song \in Catalog :
        LET room_code == FirstCode
            lobby == NewPlayer(NewPlayer(NewRoom(1, max_score), 2, "Alice"), 3, "Bob")
            first == JudgedCorrect(Buzzed(RoundStarted(lobby, song), 2), 1)
            room == Buzzed(RoundStarted(first, song), 2)
            rms == Put(<< >>, room_code, room)
        IN  /\ rooms = rms
            /\ player_sessions = [sid \in 1..3 |-> room_code]
            /\ channels = {Membership(sid, "room", room_code) : sid \in 1..3}
                              \cup {Membership(1, "host", room_code)}
            /\ open = 1..3
            /\ nextSid = 4
            /\ nevents = MaxEvents - LeadEvents
            /\ sent = <<Emit("player_buzzed",
                             [playerId |-> 2, playerName |-> "Alice", position |-> 1],
                             ToRoom(room_code))>>
                          \o RoomStates(rms, room_code)

Init ==
    /\ songs_data = Catalog
    /\ code_pool = {FirstCode}
    /\ (Started \/ InRound \/ Contested \/ NearlyFull \/ Leading)

\* ------------------------------------------------------------ skip_round
\* mutant: skipping the round forgets who was locked out
Skipped_ClearsLockouts(room) ==
    [room EXCEPT !.round_active = FALSE, !.current_buzzer = NoSid, !.buzz_queue = <<>>,
                 !.locked_out = {}]

Skipped(room) ==
    [room EXCEPT !.round_active = FALSE, !.current_buzzer = NoSid, !.buzz_queue = <<>>]

handle_skip_round(sid) ==
    /\ sid \in open
    /\ UNCHANGED <<songs_data, code_pool, open, nextSid, player_sessions, channels>>
    /\ IF ~IsHost(sid)
       THEN Returned /\ UNCHANGED <<rooms, sent>>
       ELSE LET room_code == player_sessions[sid]
                rms == Put(rooms, room_code, Skipped(rooms[room_code]))
            IN  /\ Handled
                /\ rooms' = rms
                /\ sent' = <<Emit("round_skipped",
                                  [song |-> rooms[room_code].current_song],
                                  ToRoom(room_code))>>
                               \o RoomStates(rms, room_code)

\* ------------------------------------------------------------ end_game
\* mutant: the last entry with the highest score
MaxByScore_Last(ps) ==
    ps[CHOOSE i \in DOMAIN ps :
          /\ \A j \in DOMAIN ps : ps[j].score <= ps[i].score
          /\ \A j \in (i + 1)..Len(ps) : ps[j].score < ps[i].score]

\* max(players.values(), key=score): the first entry with the highest score
MaxByScore(ps) ==
    ps[CHOOSE i \in DOMAIN ps :
          /\ \A j \in DOMAIN ps : ps[j].score <= ps[i].score
          /\ \A j \in 1..(i - 1) : ps[j].score < ps[i].score]

\* mutant: the round in progress survives the end of the game
Ended_KeepsRound(room) ==
    [room EXCEPT !.game_ended = TRUE,
                 !.winner = IF room.players # <<>> THEN MaxByScore(room.players).name
                            ELSE room.winner]

Ended(room) ==
    [room EXCEPT !.game_ended = TRUE,
                 !.round_active = FALSE,
                 !.winner = IF room.players # <<>> THEN MaxByScore(room.players).name
                            ELSE room.winner]

handle_end_game(sid) ==
    /\ sid \in open
    /\ UNCHANGED <<songs_data, code_pool, open, nextSid, player_sessions, channels>>
    /\ IF ~IsHost(sid)
       THEN Returned /\ UNCHANGED <<rooms, sent>>
       ELSE LET room_code == player_sessions[sid]
                rms == Put(rooms, room_code, Ended(rooms[room_code]))
            IN  /\ Handled
                /\ rooms' = rms
                /\ sent' = <<Emit("game_ended",
                                  [winner |-> rms[room_code].winner,
                                   finalScores |->
                                       get_room_state(rms, room_code, FALSE).players],
                                  ToRoom(room_code))>>

\* ------------------------------------------------------------ host_rejoin
\* mutant: the host's seat is given away whether or not it is taken
HostConnected_NotTested(room) == FALSE

HostConnected(room) == room.host_connected

handle_host_rejoin(sid, roomCode) ==
    /\ sid \in open
    /\ UNCHANGED <<songs_data, code_pool, open, nextSid>>
    /\ LET room_code == upper(roomCode)
       IN  IF room_code \notin DOMAIN rooms
           THEN /\ Replied
                /\ sent' = Error(sid, "Raum nicht gefunden")
                /\ UNCHANGED <<rooms, player_sessions, channels>>
           ELSE IF HostConnected(rooms[room_code])
           THEN /\ Replied
                /\ sent' = Error(sid, "Host ist bereits verbunden")
                /\ UNCHANGED <<rooms, player_sessions, channels>>
           ELSE LET rms == Put(rooms, room_code,
                               [rooms[room_code] EXCEPT !.host_sid = sid,
                                                        !.host_connected = TRUE])
                IN  /\ Handled
                    /\ rooms' = rms
                    /\ player_sessions' = Attach(player_sessions, sid, room_code)
                    /\ channels' = channels \cup {Membership(sid, "room", room_code),
                                                  Membership(sid, "host", room_code)}
                    /\ sent' = <<Emit("host_rejoined",
                                      get_room_state(rms, room_code, TRUE), ToSid(sid))>>

\* ------------------------------------------------------------ get_room_state
handle_get_room_state(sid) ==
    /\ sid \in open
    /\ UNCHANGED <<songs_data, code_pool, open, nextSid, rooms, player_sessions, channels>>
    /\ IF ~Resolved(sid)
       THEN Returned /\ UNCHANGED sent
       ELSE Replied /\
            sent' = <<Emit("room_state",
                           get_room_state(rooms, player_sessions[sid], IsHost(sid)),
                           ToSid(sid))>>

\* ------------------------------------------------------------ the system
Connect == \E sid \in Conns : handle_connect(sid)

Disconnect == \E sid \in Conns : handle_disconnect(sid)

CreateRoom ==
    \E sid \in Creators, max_score \in MaxScoreInputs, room_code \in RoomCodes :
        handle_create_room(sid, max_score, room_code)

JoinRoom ==
    \E sid \in Conns, roomCode \in RoomCodeInputs, playerName \in NameInputs :
        handle_join_room(sid, roomCode, playerName)

LeaveRoom == \E sid \in Conns : handle_leave_room(sid)

StartGame == \E sid \in Conns : handle_start_game(sid)

StartRound ==
    \E sid \in Conns, song \in songs_data \cup {NoSong} : handle_start_round(sid, song)

Buzz == \E sid \in Conns : handle_buzz(sid)

Judge ==
    \E sid \in Conns, correct_artist \in BOOLEAN, correct_title \in BOOLEAN :
        handle_judge(sid, correct_artist, correct_title)

SkipRound == \E sid \in Conns : handle_skip_round(sid)

EndGame == \E sid \in Conns : handle_end_game(sid)

HostRejoin == \E sid \in Conns, roomCode \in RoomCodeInputs : handle_host_rejoin(sid, roomCode)

GetRoomState == \E sid \in Conns : handle_get_room_state(sid)

Next ==
    \/ Connect
    \/ Disconnect
    \/ CreateRoom
    \/ JoinRoom
    \/ LeaveRoom
    \/ StartGame
    \/ StartRound
    \/ Buzz
    \/ Judge
    \/ SkipRound
    \/ EndGame
    \/ HostRejoin
    \/ GetRoomState

Spec == Init /\ [][Next]_vars

SpecMany == InitMany /\ [][Next]_vars

\* ================================================================ claims
QueueOf(c) == rooms[c].buzz_queue

\* C1: a Buzz never reorders or removes queue entries: the queue after a Buzz
\* of connection sid is the queue before, or the queue before with sid
\* appended at its tail.
C1_BuzzAppendsAtTail ==
    [][\A sid \in Conns : handle_buzz(sid) =>
          \A c \in DOMAIN rooms :
              \/ rooms'[c].buzz_queue = rooms[c].buzz_queue
              \/ /\ rooms'[c].buzz_queue = Append(rooms[c].buzz_queue, sid)
                 /\ c = player_sessions[sid]]_vars

\* two accepted Buzz events in a row: the second buzzer is behind the first
C1_Witness ==
    \E c \in DOMAIN rooms :
        /\ Len(QueueOf(c)) = 2
        /\ QueueOf(c)[1] # QueueOf(c)[2]
        /\ sent # <<>>
        /\ sent[1].ev = "player_buzzed"
        /\ sent[1].data.playerId = QueueOf(c)[2]
        /\ sent[1].data.position = 2

\* C2: whenever currentBuzzer is set it is the first element of buzzQueue.
C2_CurrentBuzzerIsHead ==
    \A c \in DOMAIN rooms :
        rooms[c].current_buzzer # NoSid =>
            /\ rooms[c].buzz_queue # <<>>
            /\ rooms[c].buzz_queue[1] = rooms[c].current_buzzer

\* the head was judged wrong and the next in the queue took its place
C2_Witness ==
    \E c \in DOMAIN rooms :
        /\ rooms[c].locked_out # {}
        /\ rooms[c].current_buzzer # NoSid
        /\ rooms[c].current_buzzer \notin rooms[c].locked_out
        /\ sent # <<>>
        /\ sent[1].ev = "judge_result"

\* C3: a Buzz from a connection that is attached to no room, or whose room
\* has no active round, or that is no player of its room, or that is already
\* queued or locked out, changes nothing and emits nothing.
C3_MayNotBuzz(sid) ==
    \/ sid \notin DOMAIN player_sessions
    \/ LET room == rooms[player_sessions[sid]]
       IN  \/ ~room.round_active
           \/ sid \notin Sids(room.players)
           \/ InSeq(sid, room.buzz_queue)
           \/ sid \in room.locked_out

C3_IgnoredBuzzChangesNothing ==
    [][\A sid \in Conns : (C3_MayNotBuzz(sid) /\ handle_buzz(sid)) =>
          UNCHANGED <<rooms, player_sessions, channels, sent>>]_vars

\* a queued player buzzes again while the round is on: the event is handled
C3_Witness ==
    \E sid \in open :
        /\ sid \in DOMAIN player_sessions
        /\ rooms[player_sessions[sid]].round_active
        /\ InSeq(sid, rooms[player_sessions[sid]].buzz_queue)
        /\ ENABLED handle_buzz(sid)

\* C4 (as claimed): when a connection that appears nowhere in the room joins
\* under the name (ignoring case) of a disconnected player, it gets that
\* player's score, queue index, current-buzzer role and lockout, and the old
\* connection id is gone from players, buzzQueue, currentBuzzer and lockedOut.
C4_Standing(before, after, old, new) ==
    /\ new \in Sids(after.players)
    /\ DictGet(after.players, new).score = DictGet(before.players, old).score
    /\ Len(after.buzz_queue) = Len(before.buzz_queue)
    /\ \A k \in DOMAIN before.buzz_queue :
           (before.buzz_queue[k] = old) <=> (after.buzz_queue[k] = new)
    /\ (after.current_buzzer = new) <=> (before.current_buzzer = old)
    /\ (new \in after.locked_out) <=> (old \in before.locked_out)
    /\ old \notin Sids(after.players)
    /\ ~InSeq(old, after.buzz_queue)
    /\ after.current_buzzer # old
    /\ old \notin after.locked_out

C4_NewConnection(room, sid) ==
    /\ sid \notin Sids(room.players)
    /\ ~InSeq(sid, room.buzz_queue)
    /\ sid # room.current_buzzer
    /\ sid \notin room.locked_out

C4_RejoinKeepsStanding ==
    [][\A sid \in Conns, roomCode \in RoomCodeInputs, playerName \in NameInputs :
          handle_join_room(sid, roomCode, playerName) =>
              \A c \in DOMAIN rooms : \A i \in DOMAIN rooms[c].players :
                  (/\ c = upper(roomCode)
                   /\ rooms[c].round_active
                   /\ ~rooms[c].game_ended
                   /\ C4_NewConnection(rooms[c], sid)
                   /\ ~rooms[c].players[i].connected
                   /\ lower(rooms[c].players[i].name) = lower(strip(playerName)))
                  => C4_Standing(rooms[c], rooms'[c], rooms[c].players[i].sid, sid)]_vars

\* C5 (as claimed): a Judge of the host with both flags false while
\* currentBuzzer is set changes no score, locks the judged connection out,
\* removes it from buzzQueue and makes the next head of the queue (or none)
\* the current buzzer.
Scores(room) == [i \in DOMAIN room.players |->
                    [sid |-> room.players[i].sid, score |-> room.players[i].score]]

C5_WrongJudgeLocksOut ==
    [][\A sid \in Conns :
          handle_judge(sid, FALSE, FALSE) =>
              \A c \in DOMAIN rooms :
                  (rooms[c].host_sid = sid /\ rooms[c].current_buzzer # NoSid) =>
                      /\ Scores(rooms'[c]) = Scores(rooms[c])
                      /\ rooms[c].current_buzzer \in rooms'[c].locked_out
                      /\ ~InSeq(rooms[c].current_buzzer, rooms'[c].buzz_queue)
                      /\ rooms'[c].current_buzzer =
                             IF rooms'[c].buzz_queue # <<>>
                             THEN rooms'[c].buzz_queue[1] ELSE NoSid]_vars

\* C6 (as claimed): in a state where the round is active and every connected
\* player is locked out, a Judge of the host makes roundActive false.
C6_JudgeEndsLockedOutRound ==
    [][\A sid \in Conns, correct_artist \in BOOLEAN, correct_title \in BOOLEAN :
          handle_judge(sid, correct_artist, correct_title) =>
              \A c \in DOMAIN rooms :
                  (/\ rooms[c].host_sid = sid
                   /\ rooms[c].round_active
                   /\ ConnectedPlayers(rooms[c]) \subseteq rooms[c].locked_out)
                  => ~rooms'[c].round_active]_vars

\* C6 (amended): whenever a Judge with both flags false locks the current
\* buzzer out and every connected player is then locked out, that Judge
\* makes roundActive false.
C6_LockingOutTheLastEndsRound ==
    [][\A sid \in Conns :
          (/\ handle_judge(sid, FALSE, FALSE)
           /\ sent' # <<>>
           /\ sent'[1].ev = "judge_result"
           /\ "lockedOut" \in DOMAIN sent'[1].data) =>
              LET c == sent'[1].to.code
              IN  /\ sent'[1].data.playerId \in rooms'[c].locked_out
                  /\ (ConnectedPlayers(rooms'[c]) \subseteq rooms'[c].locked_out)
                         => ~rooms'[c].round_active]_vars

\* the only connected player was judged wrong: the round is over
C6_Witness ==
    /\ sent # <<>>
    /\ sent[1].ev = "judge_result"
    /\ "allLockedOut" \in DOMAIN sent[1].data
    /\ LET room == rooms[sent[1].to.code]
       IN  /\ ~room.round_active
           /\ ConnectedPlayers(room) # {}
           /\ ConnectedPlayers(room) \subseteq room.locked_out
           /\ ~room.game_ended

\* C7 (as claimed): once gameEnded is true, a StartRound, a Buzz or a Judge
\* changes no field of the room.
C7_EndedRoomIsFrozen ==
    [][\A sid \in Conns :
          (\/ \E song \in Catalog \cup {NoSong} : handle_start_round(sid, song)
           \/ handle_buzz(sid)
           \/ \E correct_artist \in BOOLEAN, correct_title \in BOOLEAN :
                  handle_judge(sid, correct_artist, correct_title)) =>
              \A c \in DOMAIN rooms : rooms[c].game_ended => rooms'[c] = rooms[c]]_vars

\* C8 (as claimed): a Judge of the host with at least one flag true while
\* currentBuzzer is set raises exactly the current buzzer's score by the
\* number of true flags, ends the round, clears currentBuzzer, and the game
\* is ended with that player as winner exactly if the new score reaches
\* maxScore.
C8_ScoreOf(room, sid) ==
    IF sid \in Sids(room.players) THEN DictGet(room.players, sid).score ELSE -1

C8_CorrectJudgeAwards ==
    [][\A sid \in Conns, correct_artist \in BOOLEAN, correct_title \in BOOLEAN :
          (handle_judge(sid, correct_artist, correct_title)
               /\ (correct_artist \/ correct_title)) =>
              \A c \in DOMAIN rooms :
                  (rooms[c].host_sid = sid /\ rooms[c].current_buzzer # NoSid) =>
                      LET buzzer == rooms[c].current_buzzer
                          score == C8_ScoreOf(rooms[c], buzzer)
                                       + Points(correct_artist, correct_title)
                      IN  /\ buzzer \in Sids(rooms[c].players)
                          /\ C8_ScoreOf(rooms'[c], buzzer) = score
                          /\ \A other \in Sids(rooms[c].players) \ {buzzer} :
                                 C8_ScoreOf(rooms'[c], other) = C8_ScoreOf(rooms[c], other)
                          /\ ~rooms'[c].round_active
                          /\ rooms'[c].current_buzzer = NoSid
                          /\ (score >= rooms[c].max_score) <=>
                                 (/\ rooms'[c].game_ended
                                  /\ rooms'[c].winner =
                                         DictGet(rooms[c].players, buzzer).name)]_vars

\* C9: the view of a non-host does not depend on the current song and has no
\* currentSong field; the view of the host has one exactly when a song is set.
C9_PlayerViewHidesSong ==
    \A c \in DOMAIN rooms :
        /\ \A song \in Catalog \cup {NoSong} :
               get_room_state(Put(rooms, c, [rooms[c] EXCEPT !.current_song = song]),
                              c, FALSE)
                   = get_room_state(rooms, c, FALSE)
        /\ "currentSong" \notin DOMAIN get_room_state(rooms, c, FALSE)
        /\ ("currentSong" \in DOMAIN get_room_state(rooms, c, TRUE))
               <=> (rooms[c].current_song # NoSong)

\* a song is set, and both views were just sent to a room with a player
C9_Witness ==
    \E c \in DOMAIN rooms :
        /\ rooms[c].current_song # NoSong
        /\ rooms[c].players # <<>>
        /\ \E i \in DOMAIN sent :
               /\ sent[i] = Emit("room_state", get_room_state(rooms, c, FALSE), ToRoom(c))
        /\ \E i \in DOMAIN sent :
               /\ sent[i] = Emit("room_state", get_room_state(rooms, c, TRUE), ToHost(c))
               /\ sent[i].data.currentSong = rooms[c].current_song

\* C10: an event that carries the identity of a song goes to the host channel
\* or to the host's connection; on the room channel it is a judge_result or a
\* round_skipped of a round that is over.  The members of a host channel are
\* host connections of that room.
CarriesSong(e) ==
    \/ /\ "song" \in DOMAIN e.data
       /\ "id" \in DOMAIN e.data.song
       /\ e.data.song # NoSong
    \/ "currentSong" \in DOMAIN e.data

C10_SongOnlyToHost ==
    /\ \A m \in channels :
           m.kind = "host" => m.code \in DOMAIN rooms /\ rooms[m.code].host_sid = m.sid
    /\ \A i \in DOMAIN sent :
           CarriesSong(sent[i]) =>
               \/ sent[i].to.kind = "host"
               \/ /\ sent[i].to.kind = "sid"
                  /\ \E c \in DOMAIN rooms : rooms[c].host_sid = sent[i].to.sid
               \/ /\ sent[i].to.kind = "room"
                  /\ sent[i].ev \in {"judge_result", "round_skipped"}
                  /\ ~rooms[sent[i].to.code].round_active

\* a round has just started in a room with a player who is not the host: the
\* song went to the host channel, the preview to the room
C10_Witness ==
    \E c \in DOMAIN rooms :
        /\ rooms[c].round_active
        /\ \E m \in channels : m.kind = "room" /\ m.code = c /\ m.sid # rooms[c].host_sid
        /\ sent # <<>>
        /\ sent[1] = Emit("round_started", [song |-> rooms[c].current_song], ToHost(c))
        /\ sent[2].ev = "round_started"
        /\ sent[2].to = ToRoom(c)

\* C11: a start_game, start_round, judge, skip_round or end_game event from
\* a connection that is the host of no room leaves every room as it is and
\* puts nothing on a room or host channel: it emits nothing, or events
\* addressed to the sender alone.
C11_HostOnly(sid) ==
    \/ handle_start_game(sid)
    \/ \E song \in Catalog \cup {NoSong} : handle_start_round(sid, song)
    \/ \E correct_artist \in BOOLEAN, correct_title \in BOOLEAN :
           handle_judge(sid, correct_artist, correct_title)
    \/ handle_skip_round(sid)
    \/ handle_end_game(sid)

C11_OnlyHostCommands ==
    [][\A sid \in Conns :
          ((\A c \in DOMAIN rooms : rooms[c].host_sid # sid) /\ C11_HostOnly(sid)) =>
              /\ rooms' = rooms
              /\ \/ sent' = sent
                 \/ \A i \in DOMAIN sent' : sent'[i].to = ToSid(sid)]_vars

\* a player of a room with a current buzzer has asked to start the game and
\* got the error; its other host-only events are handled too
C11_Witness ==
    \E sid \in open :
        /\ Resolved(sid)
        /\ LET room == rooms[player_sessions[sid]]
           IN  /\ room.host_sid # sid
               /\ sid \in Sids(room.players)
               /\ room.round_active
               /\ room.current_buzzer # NoSid
               /\ ~room.game_started
               /\ ~room.game_ended
        /\ sent = Error(sid, "Nur der Host kann das Spiel starten")
        /\ ENABLED C11_HostOnly(sid)

\* C12 (as claimed): a Join on an unknown, ended or full room, a host-only
\* event from a connection that is attached to a room without being its host,
\* and a HostRejoin on an unknown room or on one whose host is connected are
\* each answered by exactly one error event, addressed to the sender alone.
C12_ErrorToSender(sid) ==
    /\ Len(sent') = 1
    /\ sent'[1].ev = "error"
    /\ sent'[1].to = ToSid(sid)

C12_JoinRefused(roomCode, playerName) ==
    /\ strip(playerName) # ""
    /\ \/ upper(roomCode) \notin DOMAIN rooms
       \/ rooms[upper(roomCode)].game_ended
       \/ /\ ExistingSid(rooms[upper(roomCode)], strip(playerName)) = NoSid
          /\ Len(rooms[upper(roomCode)].players) >= MaxPlayers

C12_RejectionsReported ==
    [][\A sid \in Conns :
          /\ \A roomCode \in RoomCodeInputs, playerName \in NameInputs :
                 (handle_join_room(sid, roomCode, playerName)
                      /\ C12_JoinRefused(roomCode, playerName))
                     => C12_ErrorToSender(sid)
          /\ \A roomCode \in RoomCodeInputs :
                 (handle_host_rejoin(sid, roomCode)
                      /\ (upper(roomCode) \in DOMAIN rooms
                              => rooms[upper(roomCode)].host_connected))
                     => C12_ErrorToSender(sid)
          /\ (Resolved(sid) /\ rooms[player_sessions[sid]].host_sid # sid
                  /\ C11_HostOnly(sid))
                 => C12_ErrorToSender(sid)]_vars

\* C13: the room_state events of a step are exactly two, the player view of
\* room c after the step to its room channel and the host view after the step
\* to its host channel.
C13_Pushed(c) ==
    LET rs == SelectSeq(sent', LAMBDA e : e.ev = "room_state")
    IN  /\ Len(rs) = 2
        /\ {rs[1], rs[2]} =
               {Emit("room_state", get_room_state(rooms', c, FALSE), ToRoom(c)),
                Emit("room_state", get_room_state(rooms', c, TRUE), ToHost(c))}

\* the operations that push the state in the code
C13_PushingStep(c) ==
    \E sid \in Conns :
        \/ \E roomCode \in RoomCodeInputs, playerName \in NameInputs :
               handle_join_room(sid, roomCode, playerName)
        \/ handle_leave_room(sid)
        \/ handle_disconnect(sid) /\ rooms[c].host_sid # sid
        \/ handle_start_game(sid)
        \/ \E song \in Catalog \cup {NoSong} : handle_start_round(sid, song)
        \/ handle_buzz(sid)
        \/ \E correct_artist \in BOOLEAN, correct_title \in BOOLEAN :
               handle_judge(sid, correct_artist, correct_title)
        \/ handle_skip_round(sid)

\* C13 (as claimed): every join, rejoin, leave, disconnect of a player or of
\* the host, start game, start round, buzz, judge, skip round, end game and
\* host rejoin that changes a room is followed by exactly these two events.
C13_EveryChangeIsPushed ==
    [][\A c \in DOMAIN rooms :
          (/\ rooms'[c] # rooms[c]
           /\ \/ C13_PushingStep(c)
              \/ \E sid \in Conns :
                     \/ handle_disconnect(sid)
                     \/ handle_end_game(sid)
                     \/ \E roomCode \in RoomCodeInputs : handle_host_rejoin(sid, roomCode))
          => C13_Pushed(c)]_vars

\* C13 (amended): every join, rejoin, leave, disconnect of a player, start
\* game, start round, buzz, judge and skip round that changes a room is
\* followed by exactly these two events.
C13_PlayerVisibleChangeIsPushed ==
    [][\A c \in DOMAIN rooms :
          (rooms'[c] # rooms[c] /\ C13_PushingStep(c)) => C13_Pushed(c)]_vars

\* a Buzz was accepted: player_buzzed, then the two views, the host's with
\* the song
C13_Witness ==
    \E c \in DOMAIN rooms :
        /\ Len(sent) = 3
        /\ sent[1].ev = "player_buzzed"
        /\ sent[2] = Emit("room_state", get_room_state(rooms, c, FALSE), ToRoom(c))
        /\ sent[3] = Emit("room_state", get_room_state(rooms, c, TRUE), ToHost(c))
        /\ "currentSong" \in DOMAIN sent[3].data
        /\ sent[3].data.currentBuzzer.id = sent[1].data.playerId

\* C14: no room ever has more than 8 entries in players, connected and
\* disconnected together.
C14_AtMostEightPlayers ==
    \A c \in DOMAIN rooms : Len(rooms[c].players) <= MaxPlayers

\* a room has 8 entries and a Join under a new name has just been refused
C14_Witness ==
    \E c \in DOMAIN rooms, sid \in open :
        /\ Len(rooms[c].players) = MaxPlayers
        /\ sid \notin Sids(rooms[c].players)
        /\ sent = Error(sid, "Raum ist voll (max. 8 Spieler)")

\* C15 (as claimed): a Join under a name that matches no disconnected player
\* is refused as full exactly when 8 or more players of the room are
\* connected; with fewer connected players, and the game not ended, it
\* creates a fresh player with score 0 for the sender.
C15_JoinRefusedIffEightConnected ==
    [][\A sid \in Conns, roomCode \in RoomCodeInputs, playerName \in NameInputs :
          (/\ handle_join_room(sid, roomCode, playerName)
           /\ strip(playerName) # ""
           /\ upper(roomCode) \in DOMAIN rooms
           /\ ~rooms[upper(roomCode)].game_ended
           /\ \A i \in DOMAIN rooms[upper(roomCode)].players :
                  \/ rooms[upper(roomCode)].players[i].connected
                  \/ lower(rooms[upper(roomCode)].players[i].name)
                         # lower(strip(playerName)))
          => LET c == upper(roomCode)
             IN  IF Cardinality(ConnectedPlayers(rooms[c])) >= MaxPlayers
                 THEN /\ sent' = Error(sid, "Raum ist voll (max. 8 Spieler)")
                      /\ rooms' = rooms
                 ELSE /\ sid \in Sids(rooms'[c].players)
                      /\ DictGet(rooms'[c].players, sid)
                             = Entry(sid, strip(playerName), 0, TRUE)]_vars

\* C16 (as claimed): no two connected players of a room have names that are
\* equal ignoring case.
C16_ConnectedNamesUnique ==
    \A c \in DOMAIN rooms :
        \A i \in DOMAIN rooms[c].players : \A j \in DOMAIN rooms[c].players :
            (/\ i # j
             /\ rooms[c].players[i].connected
             /\ rooms[c].players[j].connected)
            => lower(rooms[c].players[i].name) # lower(rooms[c].players[j].name)

\* C17: a Join on a room whose game has ended is answered by one error to
\* the sender and changes neither the room (players, buzzQueue,
\* currentBuzzer, lockedOut) nor the connection directory.
C17_NoJoinAfterEnd ==
    [][\A sid \in Conns, roomCode \in RoomCodeInputs, playerName \in NameInputs :
          (/\ upper(roomCode) \in DOMAIN rooms
           /\ rooms[upper(roomCode)].game_ended
           /\ handle_join_room(sid, roomCode, playerName))
          => /\ rooms' = rooms
             /\ player_sessions' = player_sessions
             /\ channels' = channels
             /\ Len(sent') = 1
             /\ sent'[1].ev = "error"
             /\ sent'[1].to = ToSid(sid)]_vars

\* the game is over, a player of the room has lost its connection, and a
\* Join has just been refused for that reason
C17_Witness ==
    \E c \in DOMAIN rooms, sid \in open :
        /\ rooms[c].game_ended
        /\ \E i \in DOMAIN rooms[c].players :
               /\ ~rooms[c].players[i].connected
               /\ rooms[c].players[i].name \in {"Alice", "Bob"}
        /\ sent = Error(sid, "Spiel ist bereits beendet")

\* C18 (as claimed): a connection that is in lockedOut is, after any further
\* event, neither in buzzQueue nor the current buzzer (a StartRound empties
\* all three).
C18_LockedOutStaysOut ==
    [][\A c \in DOMAIN rooms : \A sid \in rooms[c].locked_out :
          /\ ~InSeq(sid, rooms'[c].buzz_queue)
          /\ rooms'[c].current_buzzer # sid]_vars

\* C19 (as claimed): in every state lockedOut is disjoint from buzzQueue and
\* does not contain currentBuzzer.
C19_LockedOutNotQueued ==
    \A c \in DOMAIN rooms :
        /\ \A i \in DOMAIN rooms[c].buzz_queue :
               rooms[c].buzz_queue[i] \notin rooms[c].locked_out
        /\ rooms[c].current_buzzer \notin rooms[c].locked_out

\* C20 (as claimed): in every state currentBuzzer is none when the round is
\* inactive or buzzQueue is empty.
C20_NoBuzzerOutsideRound ==
    \A c \in DOMAIN rooms :
        (~rooms[c].round_active \/ rooms[c].buzz_queue = <<>>)
            => rooms[c].current_buzzer = NoSid

\* C21: a HostRejoin on an existing room succeeds exactly when its
\* host_connected is false: the sender becomes host_sid, host_connected
\* becomes true and host_rejoined is sent to it.  When host_connected is true
\* the sender gets one error, and the rooms (host_sid included) and the
\* connection directory stay as they are.
C21_HostRejoinOnlyWhenHostAway ==
    [][\A sid \in Conns, roomCode \in RoomCodeInputs :
          (upper(roomCode) \in DOMAIN rooms /\ handle_host_rejoin(sid, roomCode)) =>
              LET c == upper(roomCode)
              IN  IF rooms[c].host_connected
                  THEN /\ rooms' = rooms
                       /\ player_sessions' = player_sessions
                       /\ sent' = Error(sid, "Host ist bereits verbunden")
                  ELSE /\ rooms'[c] = [rooms[c] EXCEPT !.host_sid = sid,
                                                       !.host_connected = TRUE]
                       /\ \A d \in DOMAIN rooms \ {c} : rooms'[d] = rooms[d]
                       /\ player_sessions'[sid] = c
                       /\ Len(sent') = 1
                       /\ sent'[1].ev = "host_rejoined"
                       /\ sent'[1].to = ToSid(sid)]_vars

\* C21 witness: a connection that did not create the room has just taken the
\* seat of its host, which had disconnected.
C21_Witness ==
    \E c \in DOMAIN rooms :
        /\ rooms[c].host_sid \notin Creators
        /\ rooms[c].host_connected
        /\ Len(sent) = 1
        /\ sent[1].ev = "host_rejoined"
        /\ sent[1].to = ToSid(rooms[c].host_sid)

\* C22: the game phase is monotonic.  Under every event a room stays in the
\* registry, game_started stays true once it is true and game_ended stays
\* true once it is true.
C22_PhaseIsMonotonic ==
    [][\A c \in DOMAIN rooms :
          /\ c \in DOMAIN rooms'
          /\ rooms[c].game_started => rooms'[c].game_started
          /\ rooms[c].game_ended => rooms'[c].game_ended]_vars

\* C22 witness: a StartGame has just been accepted in a room whose game had
\* ended, and the game is still ended.
C22_Witness ==
    \E c \in DOMAIN rooms :
        /\ rooms[c].game_ended
        /\ rooms[c].game_started
        /\ Len(sent) = 3
        /\ sent[1] = Emit("game_started", << >>, ToRoom(c))

\* C23 (as claimed): a StartGame by the host of a room that is not in the
\* lobby (game started or ended), or that has no connected player, changes no
\* room and broadcasts no game_started.
C23_StartGameNeedsLobbyAndPlayer ==
    [][\A sid \in Conns :
          (/\ IsHost(sid)
           /\ LET room == rooms[player_sessions[sid]]
              IN  \/ room.game_started
                  \/ room.game_ended
                  \/ \A i \in DOMAIN room.players : ~room.players[i].connected
           /\ handle_start_game(sid))
          => /\ rooms' = rooms
             /\ \A i \in DOMAIN sent' : sent'[i].ev # "game_started"]_vars

C25_ScoreNeverDecreases ==
    [][\A c \in DOMAIN rooms : \A sid \in Sids(rooms[c].players) :
          sid \in Sids(rooms'[c].players) =>
              DictGet(rooms'[c].players, sid).score >= DictGet(rooms[c].players, sid).score]_vars

\* C28: a StartRound by the host that draws a song makes it current_song,
\* sets round_active, empties buzz_queue, current_buzzer and locked_out, and
\* leaves every other field of the room but used_song_ids (players, scores,
\* max_score, host fields, phase) as it was, also when a round is active.
C28_StartRoundResetsTheRound ==
    [][\A sid \in Conns, song \in Catalog :
          (/\ IsHost(sid)
           /\ ~rooms[player_sessions[sid]].game_ended
           /\ handle_start_round(sid, song))
          => LET c == player_sessions[sid]
             IN  rooms'[c] = [rooms[c] EXCEPT
                                 !.current_song = song,
                                 !.round_active = TRUE,
                                 !.buzz_queue = <<>>,
                                 !.current_buzzer = NoSid,
                                 !.locked_out = {},
                                 !.used_song_ids = rooms'[c].used_song_ids]]_vars

\* C28 witness: the host starts a round while a round is active in which one
\* player is locked out and another is the current buzzer.
C28_Witness ==
    \E sid \in open, song \in Catalog :
        /\ IsHost(sid)
        /\ LET room == rooms[player_sessions[sid]]
           IN  /\ room.round_active
               /\ ~room.game_ended
               /\ room.buzz_queue # <<>>
               /\ room.current_buzzer # NoSid
               /\ room.locked_out # {}
        /\ ENABLED handle_start_round(sid, song)

\* C30: a SkipRound by the host clears round_active, current_buzzer and
\* buzz_queue and leaves every other field of the room (locked_out,
\* current_song, used_song_ids, players and scores, phase) as it was.
C30_SkipRoundKeepsTheRest ==
    [][\A sid \in Conns :
          (IsHost(sid) /\ handle_skip_round(sid))
          => LET c == player_sessions[sid]
             IN  /\ rooms'[c] = [rooms[c] EXCEPT !.round_active = FALSE,
                                                 !.current_buzzer = NoSid,
                                                 !.buzz_queue = <<>>]
                 /\ sent'[1] = Emit("round_skipped",
                                    [song |-> rooms[c].current_song], ToRoom(c))]_vars

\* C30 witness: the host has just skipped a round in which a player was
\* locked out; the lockout and the song are still there.
C30_Witness ==
    \E c \in DOMAIN rooms :
        /\ Len(sent) = 3
        /\ sent[1].ev = "round_skipped"
        /\ sent[1].to = ToRoom(c)
        /\ ~rooms[c].round_active
        /\ rooms[c].buzz_queue = <<>>
        /\ rooms[c].current_buzzer = NoSid
        /\ rooms[c].locked_out # {}
        /\ rooms[c].current_song # NoSong
        /\ rooms[c].used_song_ids # {}

\* C26: a create_room yields a code that no room has, and no event removes
\* a room from the registry or replaces it by another one: under every event
\* the codes of the registry stay, a create_room adds exactly one code, with a
\* fresh room for it, and changes no room that exists.
C26_CodesAreFreshAndStay ==
    [][/\ DOMAIN rooms \subseteq DOMAIN rooms'
       /\ \A sid \in Creators, max_score \in MaxScoreInputs, room_code \in RoomCodes :
              handle_create_room(sid, max_score, room_code) =>
                  /\ room_code \notin DOMAIN rooms
                  /\ DOMAIN rooms' = DOMAIN rooms \cup {room_code}
                  /\ rooms'[room_code] = NewRoom(sid, max_score)
                  /\ \A c \in DOMAIN rooms : rooms'[c] = rooms[c]]_vars

\* C26 witness: a second room has just been created next to a room that has
\* a player.
C26_Witness ==
    /\ Cardinality(DOMAIN rooms) = 2
    /\ Len(sent) = 1
    /\ sent[1].ev = "room_created"
    /\ sent[1].to.sid \in Creators
    /\ sent[1].data.roomCode \in DOMAIN rooms
    /\ rooms[sent[1].data.roomCode] = NewRoom(sent[1].to.sid, sent[1].data.maxScore)
    /\ \E c \in DOMAIN rooms : rooms[c].players # <<>>

\* C27: rooms are independent.  An event of a connection that the directory
\* resolves to a room (disconnect, leave, start game, start round, buzz,
\* judge, skip round, end game), and a join or host rejoin that names a room,
\* leaves every other room of the registry as it was; an event of a
\* connection that resolves to no room changes no room.
C27_SessionEvent(sid) ==
    \/ handle_disconnect(sid)
    \/ handle_leave_room(sid)
    \/ handle_start_game(sid)
    \/ \E song \in songs_data \cup {NoSong} : handle_start_round(sid, song)
    \/ handle_buzz(sid)
    \/ \E correct_artist \in BOOLEAN, correct_title \in BOOLEAN :
           handle_judge(sid, correct_artist, correct_title)
    \/ handle_skip_round(sid)
    \/ handle_end_game(sid)

C27_OthersUnchanged(room_code) ==
    \A d \in DOMAIN rooms \ {room_code} : d \in DOMAIN rooms' /\ rooms'[d] = rooms[d]

C27_RoomsAreIndependent ==
    [][/\ \A sid \in Conns :
              C27_SessionEvent(sid) =>
                  IF sid \in DOMAIN player_sessions
                  THEN C27_OthersUnchanged(player_sessions[sid])
                  ELSE rooms' = rooms
       /\ \A sid \in Conns, roomCode \in RoomCodeInputs :
              (\/ \E playerName \in NameInputs : handle_join_room(sid, roomCode, playerName)
               \/ handle_host_rejoin(sid, roomCode))
              => C27_OthersUnchanged(upper(roomCode))]_vars

\* C27 witness: two rooms, one in a round with a player in its queue, the
\* other still as it was created; the last event went to the first.
C27_Witness ==
    \E a \in DOMAIN rooms, b \in DOMAIN rooms :
        /\ a # b
        /\ rooms[a].round_active
        /\ rooms[a].buzz_queue # <<>>
        /\ rooms[b] = NewRoom(rooms[b].host_sid, rooms[b].max_score)
        /\ rooms[b].host_sid # rooms[a].host_sid
        /\ sent # <<>>
        /\ sent[1].ev = "player_buzzed"
        /\ sent[1].to = ToRoom(a)

\* C29: a StartRound by the host of a room whose game has not ended draws a
\* song of the catalog.  While a song whose id is not in used_song_ids
\* remains, it draws such a song and adds its id to the set; when the set
\* covers the whole non-empty catalog, it draws any song and the set becomes
\* that song's id alone; with an empty catalog it sends one error to the host
\* and leaves current_song, round_active, buzz_queue, current_buzzer and
\* locked_out as they were.
C29_Unused(room) == {s \in songs_data : s.id \notin room.used_song_ids}

C29_DrawAvoidsUsedSongs ==
    [][\A sid \in Conns, song \in songs_data \cup {NoSong} :
          (/\ IsHost(sid)
           /\ ~rooms[player_sessions[sid]].game_ended
           /\ handle_start_round(sid, song))
          => LET c == player_sessions[sid]
                 room == rooms[c]
             IN  IF songs_data = {}
                 THEN /\ sent' = Error(sid, "Keine Songs verfuegbar")
                      /\ rooms'[c].current_song = room.current_song
                      /\ rooms'[c].round_active = room.round_active
                      /\ rooms'[c].buzz_queue = room.buzz_queue
                      /\ rooms'[c].current_buzzer = room.current_buzzer
                      /\ rooms'[c].locked_out = room.locked_out
                 ELSE /\ song \in songs_data
                      /\ rooms'[c].current_song = song
                      /\ sent'[1].ev = "round_started"
                      /\ IF C29_Unused(room) # {}
                         THEN /\ song \in C29_Unused(room)
                              /\ rooms'[c].used_song_ids = room.used_song_ids \cup {song.id}
                         ELSE rooms'[c].used_song_ids = {song.id}]_vars

\* C29 witness: every song of a catalog of several songs has been used in
\* the room, and the host starts one more round.
C29_Witness ==
    \E sid \in open, song \in songs_data :
        /\ IsHost(sid)
        /\ Cardinality(songs_data) > 1
        /\ LET room == rooms[player_sessions[sid]]
           IN  /\ ~room.game_ended
               /\ room.used_song_ids = {s.id : s \in songs_data}
        /\ ENABLED handle_start_round(sid, song)

\* C31: the disconnect of a connection that the directory resolves to a room
\* in which it has a player entry, and of which it is not the host, sets the
\* connected flag of that entry to false and removes the connection from the
\* directory; the entry, its score and its place in the dict, buzz_queue,
\* current_buzzer, locked_out, round_active, the phase and every other field
\* of the room, and every other room, are unchanged.
C31_PlayerDisconnectKeepsStanding ==
    [][\A sid \in Conns :
          (/\ Resolved(sid)
           /\ sid \in Sids(rooms[player_sessions[sid]].players)
           /\ rooms[player_sessions[sid]].host_sid # sid
           /\ handle_disconnect(sid))
          => LET c == player_sessions[sid]
                 ps == rooms[c].players
             IN  /\ rooms' = [rooms EXCEPT ![c].players =
                                 [i \in DOMAIN ps |->
                                     IF ps[i].sid = sid
                                     THEN [ps[i] EXCEPT !.connected = FALSE]
                                     ELSE ps[i]]]
                 /\ sid \notin DOMAIN player_sessions'
                 /\ \A s \in DOMAIN player_sessions \ {sid} :
                        /\ s \in DOMAIN player_sessions'
                        /\ player_sessions'[s] = player_sessions[s]]_vars

\* C31 witness: the current buzzer of an active round has just lost its
\* connection, with another player queued behind it: it is still the current
\* buzzer and the head of the queue.
C31_Witness ==
    \E c \in DOMAIN rooms :
        /\ rooms[c].round_active
        /\ rooms[c].current_buzzer # NoSid
        /\ rooms[c].current_buzzer \notin open
        /\ Len(rooms[c].buzz_queue) >= 2
        /\ rooms[c].buzz_queue[1] = rooms[c].current_buzzer
        /\ \E i \in DOMAIN rooms[c].players :
               /\ rooms[c].players[i].sid = rooms[c].current_buzzer
               /\ ~rooms[c].players[i].connected
        /\ sent = RoomStates(rooms, c)

\* C32 (as claimed): whenever the connection that is host_sid of a room
\* disconnects, host_connected of that room becomes false and nothing else in
\* the room changes.
C32_HostDisconnectFreesTheSeat ==
    [][\A c \in DOMAIN rooms :
          (rooms[c].host_sid \in open /\ handle_disconnect(rooms[c].host_sid))
          => rooms'[c] = [rooms[c] EXCEPT !.host_connected = FALSE]]_vars

\* C33 (as claimed): after a Leave the leaving connection has no player entry
\* in the room and is out of the directory, and a Join that follows under the
\* name that left makes a fresh player: score 0, in no queue, not the current
\* buzzer, not locked out.
C33_LeaveForgetsThePlayer ==
    [][/\ \A sid \in Conns :
              (/\ Resolved(sid)
               /\ sid \in Sids(rooms[player_sessions[sid]].players)
               /\ handle_leave_room(sid))
              => /\ sid \notin Sids(rooms'[player_sessions[sid]].players)
                 /\ sid \notin DOMAIN player_sessions'
       /\ \A sid \in Conns, roomCode \in RoomCodeInputs, playerName \in NameInputs :
              (/\ sent # <<>>
               /\ sent[1].ev = "player_left"
               /\ sent[1].to = ToRoom(upper(roomCode))
               /\ lower(strip(playerName)) = lower(sent[1].data.name)
               /\ handle_join_room(sid, roomCode, playerName)
               /\ sent'[1].ev = "joined_room")
              => LET after == rooms'[upper(roomCode)]
                 IN  /\ sid \in Sids(after.players)
                     /\ DictGet(after.players, sid).score = 0
                     /\ ~InSeq(sid, after.buzz_queue)
                     /\ after.current_buzzer # sid
                     /\ sid \notin after.locked_out]_vars

\* C34 (as claimed): in every state, every connection id in buzz_queue, in
\* current_buzzer or in locked_out is a key of the room's players.
C34_RoundStateNamesPlayers ==
    \A c \in DOMAIN rooms :
        /\ \A i \in DOMAIN rooms[c].buzz_queue :
               rooms[c].buzz_queue[i] \in Sids(rooms[c].players)
        /\ rooms[c].current_buzzer # NoSid =>
               rooms[c].current_buzzer \in Sids(rooms[c].players)
        /\ rooms[c].locked_out \subseteq Sids(rooms[c].players)

\* C35 (as claimed): in every state where the round is active and
\* current_buzzer is set, a Judge by the host changes the room.
C35_JudgeAlwaysMoves ==
    [][\A sid \in Conns, correct_artist \in BOOLEAN, correct_title \in BOOLEAN :
          (/\ IsHost(sid)
           /\ rooms[player_sessions[sid]].round_active
           /\ rooms[player_sessions[sid]].current_buzzer # NoSid
           /\ handle_judge(sid, correct_artist, correct_title))
          => rooms'[player_sessions[sid]] # rooms[player_sessions[sid]]]_vars

\* C36: in every state, in a room with max_score >= 1 whose game has not
\* ended, every player's score is below max_score.
C36_OpenGameBelowMaxScore ==
    \A c \in DOMAIN rooms :
        (rooms[c].max_score >= 1 /\ ~rooms[c].game_ended) =>
            \A i \in DOMAIN rooms[c].players :
                rooms[c].players[i].score < rooms[c].max_score

\* C36 witness: a Judge has just taken a player who was one point short of
\* max_score beyond it, and the game has ended with that player as winner.
C36_Witness ==
    \E c \in DOMAIN rooms : \E i \in DOMAIN rooms[c].players :
        /\ rooms[c].max_score >= 1
        /\ rooms[c].players[i].score > rooms[c].max_score
        /\ rooms[c].game_ended
        /\ rooms[c].winner = rooms[c].players[i].name
        /\ sent # <<>>
        /\ sent[1].ev = "judge_result"

\* C37 (as claimed): once the winner of a room is set, no event changes the
\* winner or the score of a player of that room.
C37_WinnerIsFinal ==
    [][\A c \in DOMAIN rooms :
          rooms[c].winner # None =>
              /\ rooms'[c].winner = rooms[c].winner
              /\ \A sid \in Sids(rooms[c].players) \cap Sids(rooms'[c].players) :
                     DictGet(rooms'[c].players, sid).score
                         = DictGet(rooms[c].players, sid).score]_vars

\* C38: in every state round_active and game_ended are not both true, and
\* when round_active is true current_song is a song of the catalog whose id
\* is in used_song_ids.
C38_ActiveRoundHasItsSong ==
    \A c \in DOMAIN rooms :
        /\ ~(rooms[c].round_active /\ rooms[c].game_ended)
        /\ rooms[c].round_active =>
               /\ rooms[c].current_song # NoSong
               /\ rooms[c].current_song \in songs_data
               /\ rooms[c].current_song.id \in rooms[c].used_song_ids

\* C38 witness: the host has just ended the game in the middle of a round
\* (the current buzzer is still set), and the round is no longer active.
C38_Witness ==
    \E c \in DOMAIN rooms :
        /\ rooms[c].game_ended
        /\ ~rooms[c].round_active
        /\ rooms[c].current_buzzer # NoSid
        /\ rooms[c].current_song # NoSong
        /\ Len(sent) = 1
        /\ sent[1].ev = "game_ended"

\* C39: each round awards points at most once.  A Judge that changes a score
\* changes the score of exactly one player, by 1 or 2, and leaves the room
\* with no active round and no current buzzer; from such a state no Judge
\* changes a score, and only a StartRound that draws a song leads out of it.
C39_Decided(room) == ~room.round_active /\ room.current_buzzer = NoSid

C39_Judged ==
    \E sid \in Conns, correct_artist \in BOOLEAN, correct_title \in BOOLEAN :
        handle_judge(sid, correct_artist, correct_title)

C39_OneAwardPerRound ==
    [][\A c \in DOMAIN rooms :
          /\ (Scores(rooms'[c]) # Scores(rooms[c]) /\ C39_Judged) =>
                 /\ ~C39_Decided(rooms[c])
                 /\ C39_Decided(rooms'[c])
                 /\ Len(rooms'[c].players) = Len(rooms[c].players)
                 /\ \E i \in DOMAIN rooms[c].players :
                        /\ rooms'[c].players[i].sid = rooms[c].players[i].sid
                        /\ rooms'[c].players[i].score - rooms[c].players[i].score \in 1..2
                        /\ \A j \in DOMAIN rooms[c].players \ {i} :
                               rooms'[c].players[j] = rooms[c].players[j]
          /\ (C39_Decided(rooms[c]) /\ ~C39_Decided(rooms'[c])) =>
                 /\ rooms'[c].round_active
                 /\ rooms'[c].buzz_queue = <<>>
                 /\ \E sid \in Conns, song \in songs_data : handle_start_round(sid, song)]_vars

\* C39 witness: the host has just judged the current buzzer correct while
\* another player was queued, and judges again before the next round.
C39_Witness ==
    \E sid \in open, c \in DOMAIN rooms :
        /\ IsHost(sid)
        /\ player_sessions[sid] = c
        /\ C39_Decided(rooms[c])
        /\ rooms[c].buzz_queue # <<>>
        /\ \E i \in DOMAIN rooms[c].players : rooms[c].players[i].score > 0
        /\ sent # <<>>
        /\ sent[1].ev = "judge_result"
        /\ ENABLED handle_judge(sid, TRUE, TRUE)

\* C40 (as claimed): in every state buzz_queue contains no connection id more
\* than once.
C40_QueueHasNoDuplicates ==
    \A c \in DOMAIN rooms :
        \A i \in DOMAIN rooms[c].buzz_queue : \A j \in DOMAIN rooms[c].buzz_queue :
            rooms[c].buzz_queue[i] = rooms[c].buzz_queue[j] => i = j

====
